---------------------------- MODULE Spec2Model ----------------------------
(***************************************************************************)
(* cairocffi.pixbuf: decoding an image with GDK-PixBuf and converting the  *)
(* decoded GdkPixbuf to a cairo ImageSurface.                              *)
(*                                                                         *)
(* Three specifications share the variables:                               *)
(*   Spec        decode_to_image_surface from call to return/raise, with   *)
(*               the garbage collector releasing the loader and the Pixbuf *)
(*               wrapper whenever they are unreachable;                    *)
(*   SpecSlices  pixbuf_to_cairo_slices alone, over a wider family of      *)
(*               source bitmaps and destination strides;                   *)
(*   SpecErr     handle_g_error alone, over every (return value, GError)   *)
(*               combination.                                              *)
(*                                                                         *)
(* Optional values are sequences of length <= 1: None is <<>>, Some(x) is  *)
(* <<x>>.  Text is a sequence of code points.  Offsets into buffers are    *)
(* 0-based as in the Python source; buffers are 1-based TLA+ sequences.    *)
(***************************************************************************)
EXTENDS Integers, Sequences, FiniteSets, TLC

\* ------------------------------------------------------------------ bounds
MaxWidth == 2       \* bitmap widths 1..MaxWidth
MaxHeight == 2      \* bitmap heights 1..MaxHeight
MaxSrcPad == 1      \* source row padding bytes 0..MaxSrcPad
MaxStridePad == 1   \* destination row padding, in 4-byte words, 0..MaxStridePad
MaxSeed == 1        \* pixel patterns 0..MaxSeed
MaxHint == 1        \* size hints None, 0..MaxHint
MaxMsgLen == 3      \* native error messages of 0..MaxMsgLen bytes

\* ----------------------------------------------------------------- options
None == << >>
Some(x) == << x >>
IsSome(o) == Len(o) = 1
Get(o) == o[1]

Min(a, b) == IF a < b THEN a ELSE b

\* ------------------------------------------------ Python extended slicing
\* The 0-based indices of buf[start:stop:step] for a buffer of `len` bytes
\* (0 <= start, 0 <= stop, step > 0): start and stop are clamped to len.
SliceIndices(start, stop, step, len) ==
    LET s == Min(start, len)
        e == Min(stop, len)
        n == IF e > s THEN (e - s + step - 1) \div step ELSE 0
    IN  [k \in 1..n |-> s + (k - 1) * step]

\* buf[start:stop:step]
GetSlice(buf, start, stop, step) ==
    LET idx == SliceIndices(start, stop, step, Len(buf))
    IN  [k \in 1..Len(idx) |-> buf[idx[k] + 1]]

\* buf[start:stop:step] = vals, for step # 1: Python raises ValueError unless
\* vals has exactly as many items as the slice; the buffer is never resized.
SetSlice(buf, start, stop, step, vals) ==
    LET idx == SliceIndices(start, stop, step, Len(buf))
    IN  IF Len(idx) # Len(vals)
        THEN [ok |-> FALSE, buf |-> buf, idx |-> {}]
        ELSE [ok |-> TRUE,
              buf |-> [i \in 1..Len(buf) |->
                         IF \E k \in 1..Len(idx) : idx[k] + 1 = i
                         THEN vals[CHOOSE k \in 1..Len(idx) : idx[k] + 1 = i]
                         ELSE buf[i]],
              idx |-> {idx[k] : k \in 1..Len(idx)}]

\* bytearray(n): n zero bytes
ByteArray(n) == [i \in 1..n |-> 0]

\* ------------------------------------------------- one row of the loop
\* A plausible slip: red and blue exchanged in the destination.
RowAssignmentsSwapped(pixels, y, width, rowstride, cairo_stride, big_endian) ==
    LET offset == rowstride * y
        end == offset + width * 3
        red == GetSlice(pixels, offset, end, 3)
        green == GetSlice(pixels, offset + 1, end, 3)
        blue == GetSlice(pixels, offset + 2, end, 3)
        alpha == [k \in 1..width |-> 255]
        o == cairo_stride * y
        e == o + width * 4
    IN  IF big_endian
        THEN << <<o, e, alpha>>, <<o + 1, e, blue>>,
                <<o + 2, e, green>>, <<o + 3, e, red>> >>
        ELSE << <<o + 3, e, alpha>>, <<o + 2, e, blue>>,
                <<o + 1, e, green>>, <<o, e, red>> >>

\* A plausible slip: the source row is located by the packed row length
\* instead of the row stride, so padding bytes are read as samples.
RowAssignmentsSrcPacked(pixels, y, width, rowstride, cairo_stride, big_endian) ==
    LET offset == width * 3 * y
        end == offset + width * 3
        red == GetSlice(pixels, offset, end, 3)
        green == GetSlice(pixels, offset + 1, end, 3)
        blue == GetSlice(pixels, offset + 2, end, 3)
        alpha == [k \in 1..width |-> 255]
        o == cairo_stride * y
        e == o + width * 4
    IN  IF big_endian
        THEN << <<o, e, alpha>>, <<o + 1, e, red>>,
                <<o + 2, e, green>>, <<o + 3, e, blue>> >>
        ELSE << <<o + 3, e, alpha>>, <<o + 2, e, red>>,
                <<o + 1, e, green>>, <<o, e, blue>> >>

\* A plausible slip: the destination row is located by the packed row length
\* instead of the cairo stride.
RowAssignmentsDstPacked(pixels, y, width, rowstride, cairo_stride, big_endian) ==
    LET offset == rowstride * y
        end == offset + width * 3
        red == GetSlice(pixels, offset, end, 3)
        green == GetSlice(pixels, offset + 1, end, 3)
        blue == GetSlice(pixels, offset + 2, end, 3)
        alpha == [k \in 1..width |-> 255]
        o == width * 4 * y
        e == o + width * 4
    IN  IF big_endian
        THEN << <<o, e, alpha>>, <<o + 1, e, red>>,
                <<o + 2, e, green>>, <<o + 3, e, blue>> >>
        ELSE << <<o + 3, e, alpha>>, <<o + 2, e, red>>,
                <<o + 1, e, green>>, <<o, e, blue>> >>

\* The four slice assignments data[start:end:4] = values of iteration y, as
\* <<start, end, values>> triples in the order the source performs them.
RowAssignments(pixels, y, width, rowstride, cairo_stride, big_endian) ==
    LET offset == rowstride * y
        end == offset + width * 3
        red == GetSlice(pixels, offset, end, 3)
        green == GetSlice(pixels, offset + 1, end, 3)
        blue == GetSlice(pixels, offset + 2, end, 3)
        alpha == [k \in 1..width |-> 255]
        o == cairo_stride * y
        e == o + width * 4
    IN  IF big_endian
        THEN << <<o, e, alpha>>, <<o + 1, e, red>>,
                <<o + 2, e, green>>, <<o + 3, e, blue>> >>
        ELSE << <<o + 3, e, alpha>>, <<o + 2, e, red>>,
                <<o + 1, e, green>>, <<o, e, blue>> >>

\* The assignments applied in order.  `written` collects the indices
\* assigned.  A length mismatch raises ValueError and leaves the rest undone.
ApplyRow(data, asg) ==
    LET RECURSIVE go(_, _, _)
        go(buf, k, wr) ==
            IF k > Len(asg) THEN [ok |-> TRUE, data |-> buf, written |-> wr]
            ELSE LET r == SetSlice(buf, asg[k][1], asg[k][2], 4, asg[k][3])
                 IN  IF r.ok THEN go(r.buf, k + 1, wr \cup r.idx)
                     ELSE [ok |-> FALSE, data |-> buf, written |-> wr]
    IN  go(data, 1, {})

\* -------------------------------------------------------- source bitmaps
\* Bytes per pixel of a GdkPixbuf.
PixelBytes(n_channels, bits_per_sample) == (n_channels * bits_per_sample + 7) \div 8

\* The family of decoded bitmaps: sample byte number c of pixel (x, y) is a
\* function of the pattern `seed`; padding bytes take values no sample takes.
\* The conversion only moves bytes, so a pattern with all bytes distinct shows
\* where each destination byte comes from; seeds > 0 wrap through 255 and 0.
SampleByte(seed, w, bpp, x, y, c) == (seed * 250 + bpp * (y * w + x) + c) % 256
PadByte(seed, o) == 128 + ((seed * 16 + o) % 64)

\* gdk_pixbuf_get_byte_length: the last row has no padding unless `tail`.
ByteLength(w, h, rowstride, bpp, tail) ==
    IF tail THEN rowstride * h ELSE (h - 1) * rowstride + w * bpp

Bitmap(w, h, pad, seed, tail, has_alpha, n_channels, bits_per_sample) ==
    LET bpp == PixelBytes(n_channels, bits_per_sample)
        rs == w * bpp + pad
    IN  [width |-> w, height |-> h, rowstride |-> rs,
         n_channels |-> n_channels, bits_per_sample |-> bits_per_sample,
         has_alpha |-> has_alpha, colorspace |-> "GDK_COLORSPACE_RGB",
         pixels |-> [i \in 1..ByteLength(w, h, rs, bpp, tail) |->
                       LET o == i - 1
                           row == o \div rs
                           col == o % rs
                       IN  IF col < w * bpp
                           THEN SampleByte(seed, w, bpp, col \div bpp, row, col % bpp)
                           ELSE PadByte(seed, o)]]

\* Opaque 8-bit RGB bitmaps: what pixbuf_to_cairo_slices accepts.
OpaqueBitmaps ==
    { Bitmap(w, h, pad, seed, tail, FALSE, 3, 8) :
        w \in 1..MaxWidth, h \in 1..MaxHeight, pad \in 0..MaxSrcPad,
        seed \in 0..MaxSeed, tail \in BOOLEAN }

\* What the decoder may hand back: opaque RGB, RGBA, and (guarded against by
\* the assertions of pixbuf_to_cairo_slices) opaque RGB at 16 bits per sample.
DecodedBitmaps ==
    { Bitmap(w, h, pad, 0, TRUE, k[1], k[2], k[3]) :
        w \in 1..MaxWidth, h \in 1..MaxHeight, pad \in 0..MaxSrcPad,
        k \in { <<FALSE, 3, 8>>, <<TRUE, 4, 8>>, <<FALSE, 3, 16>> } }

\* --------------------------------------------------------- error messages
\* bytes.decode('utf8', 'replace') over bytes below 0xE0: an ASCII byte is its
\* own code point; a lead byte 0xC2..0xDF followed by a continuation byte
\* 0x80..0xBF is one code point; any other byte becomes U+FFFD on its own.
RECURSIVE Utf8Decode(_)
Utf8Decode(b) ==
    IF Len(b) = 0 THEN << >>
    ELSE IF b[1] < 128 THEN << b[1] >> \o Utf8Decode(Tail(b))
    ELSE IF /\ b[1] >= 194 /\ b[1] <= 223
            /\ Len(b) >= 2 /\ b[2] >= 128 /\ b[2] <= 191
         THEN << (b[1] % 32) * 64 + (b[2] % 64) >> \o Utf8Decode(Tail(Tail(b)))
    ELSE << 65533 >> \o Utf8Decode(Tail(b))

\* 'Pixbuf error: ' and 'Pixbuf error'
PixbufErrorPrefix == << 80, 105, 120, 98, 117, 102, 32, 101, 114, 114, 111, 114, 58, 32 >>
PixbufError == << 80, 105, 120, 98, 117, 102, 32, 101, 114, 114, 111, 114 >>
\* 'Not enough image data (got a NULL pixbuf.)'
NotEnoughImageData ==
    << 78, 111, 116, 32, 101, 110, 111, 117, 103, 104, 32, 105, 109, 97,
       103, 101, 32, 100, 97, 116, 97, 32, 40, 103, 111, 116, 32, 97, 32,
       78, 85, 76, 76, 32, 112, 105, 120, 98, 117, 102, 46, 41 >>

\* The bytes a native message is made of: 'A', the two bytes of U+00E9, and a
\* byte that is never valid UTF-8.  (A C string holds no zero byte.)
MsgBytes == { 65, 195, 169, 255 }

RECURSIVE SeqsUpTo(_, _)
SeqsUpTo(S, n) ==
    IF n = 0 THEN { << >> }
    ELSE LET shorter == SeqsUpTo(S, n - 1)
         IN  shorter \cup { Append(q, x) : q \in { r \in shorter : Len(r) = n - 1 }, x \in S }

\* A GError: its message is NULL (None) or a byte string.
GErrors(n) == { [message |-> m] : m \in {None} \cup { Some(q) : q \in SeqsUpTo(MsgBytes, n) } }

\* A plausible slip: the native error is not released before raising.
handle_g_error_leak(error, return_value) ==
    IF (return_value # 0) # (error = None)
    THEN [outcome |-> "AssertionError", message |-> << >>, frees |-> 0]
    ELSE IF error # None
    THEN [outcome |-> "ImageLoadingError",
          message |-> IF Get(error).message # None
                      THEN PixbufErrorPrefix \o Utf8Decode(Get(Get(error).message))
                      ELSE PixbufError,
          frees |-> 0]
    ELSE [outcome |-> "return", message |-> << >>, frees |-> 0]

\* handle_g_error(error, return_value): `error` is the content of the
\* GError** cell, None for NULL.  Returns what the call does: it returns, or
\* raises `outcome` with `message`, having called g_error_free `frees` times.
handle_g_error(error, return_value) ==
    IF (return_value # 0) # (error = None)
    THEN [outcome |-> "AssertionError", message |-> << >>, frees |-> 0]
    ELSE IF error # None
    THEN [outcome |-> "ImageLoadingError",
          message |-> IF Get(error).message # None
                      THEN PixbufErrorPrefix \o Utf8Decode(Get(Get(error).message))
                      ELSE PixbufError,
          frees |-> 1]
    ELSE [outcome |-> "return", message |-> << >>, frees |-> 0]

\* ------------------------------------------------------------------ state
VARIABLES
    gdk,             \* module global gdk: None, or Some of the loaded library
    big_endian,      \* sys.byteorder == 'big'
    arg_width,       \* decode_to_image_surface(image_data, width, height):
    arg_height,      \*   None or Some(n)
    pc,              \* the statement about to run
    loader,          \* the native GdkPixbufLoader: "none", "alive", "released"
    native,          \* the GdkPixbuf the loader built: None or Some(bitmap)
    refcount,        \* the GdkPixbuf's GObject reference count
    wrapper,         \* the Pixbuf object: "none", "alive", "collected"
    unrefs,          \* g_object_unref calls made on behalf of the wrapper
    used_after_free, \* some GdkPixbuf call was made with refcount <= 0
    format_name,     \* None or Some(name)
    calls,           \* the loader calls made so far, in order
    invoked,         \* the conversion strategies invoked so far, in order
    surface,         \* the ImageSurface built: None or Some(record)
    exc,             \* the exception raised: None or Some([type, message])
    return_value,    \* the gboolean the last GError-style call returned
    error,           \* the GError** cell: None (NULL) or Some(GError)
    frees,           \* g_error_free calls so far
    handled,         \* SpecErr: None or Some(what handle_g_error did)
    width, height, rowstride, pixels,    \* locals of pixbuf_to_cairo_slices
    cairo_stride, data, y,
    written          \* the indices of data assigned by the last iteration

envVars == << gdk, big_endian, arg_width, arg_height >>
objVars == << loader, native, refcount, wrapper, unrefs >>
errVars == << return_value, error, frees, handled >>
sliceVars == << width, height, rowstride, pixels, cairo_stride, data, y, written >>
vars == << envVars, objVars, errVars, sliceVars, pc, used_after_free,
           format_name, calls, invoked, surface, exc >>

Hints == {None} \cup { Some(n) : n \in 0..MaxHint }

\* A logged call: its name and, for set_size, the size passed; for write and
\* close, the gboolean returned; for get_pixbuf, 0 for NULL and 1 otherwise.
Call(op, args) == [op |-> op, args |-> args]

\* What a GError-style library call may report: TRUE with the cell left
\* NULL, or FALSE with a GError stored in the cell.
LibResults ==
    { [return_value |-> 1, error |-> None] } \cup
    { [return_value |-> 0, error |-> Some(e)] : e \in GErrors(1) }

Raise(type, message) ==
    /\ pc' = "raised"
    /\ exc' = Some([type |-> type, message |-> message])

\* A GdkPixbuf call through the wrapper reads the native object.
UsePixbuf == used_after_free' = (used_after_free \/ refcount <= 0)

SliceInit ==
    /\ width = 0 /\ height = 0 /\ rowstride = 0 /\ pixels = << >>
    /\ cairo_stride = 0 /\ data = << >> /\ y = 0 /\ written = {}

Init ==
    /\ gdk \in {None, Some("gdk")}
    /\ big_endian \in BOOLEAN
    /\ arg_width \in Hints
    /\ arg_height \in Hints
    /\ pc = "loader_new"
    /\ loader = "none" /\ native = None /\ refcount = 0
    /\ wrapper = "none" /\ unrefs = 0 /\ used_after_free = FALSE
    /\ format_name = None /\ calls = << >> /\ invoked = << >>
    /\ surface = None /\ exc = None
    /\ return_value = 1 /\ error = None /\ frees = 0 /\ handled = None
    /\ SliceInit

\* ------------------------------------------------------- decode_to_pixbuf
\* Python truth of an `int or None` argument: None and 0 are false.
Truthy(o) == IsSome(o) /\ Get(o) # 0

\* loader = ffi.gc(gdk_pixbuf_loader_new(), g_object_unref); error = NULL cell
LoaderNew ==
    /\ pc = "loader_new"
    /\ loader' = "alive"
    /\ error' = None
    /\ calls' = Append(calls, Call("loader_new", << >>))
    /\ pc' = "set_size"
    /\ UNCHANGED << envVars, native, refcount, wrapper, unrefs, return_value,
                    frees, handled, sliceVars, used_after_free, format_name,
                    invoked, surface, exc >>

\* if width and height: gdk_pixbuf_loader_set_size(loader, width, height)
SetSize ==
    /\ pc = "set_size"
    /\ calls' = IF Truthy(arg_width) /\ Truthy(arg_height)
                THEN Append(calls, Call("set_size", << Get(arg_width), Get(arg_height) >>))
                ELSE calls
    /\ pc' = "write"
    /\ UNCHANGED << envVars, objVars, errVars, sliceVars, used_after_free,
                    format_name, invoked, surface, exc >>

\* The call made, its result handed to handle_g_error: the statement goes on
\* to `next`, or raises what handle_g_error raises.
Handled(r, next) ==
    LET h == handle_g_error(r.error, r.return_value)
    IN  /\ return_value' = r.return_value
        /\ error' = r.error
        /\ frees' = frees + h.frees
        /\ IF h.outcome = "return"
           THEN pc' = next /\ exc' = exc
           ELSE Raise(h.outcome, h.message)

\* handle_g_error(error, gdk_pixbuf_loader_write(loader, data, len, error))
Write ==
    /\ pc = "write"
    /\ \E r \in LibResults :
         /\ calls' = Append(calls, Call("write", << r.return_value >>))
         /\ Handled(r, "close")
    /\ UNCHANGED << envVars, objVars, handled, sliceVars, used_after_free,
                    format_name, invoked, surface >>

\* handle_g_error(error, gdk_pixbuf_loader_close(loader, error)).  A loader
\* closed with success holds the pixbuf it built, if it built one, with one
\* reference of its own.
Close ==
    /\ pc = "close"
    /\ \E r \in LibResults :
         /\ calls' = Append(calls, Call("close", << r.return_value >>))
         /\ Handled(r, "get_format")
         /\ IF r.return_value # 0
            THEN \E n \in {None} \cup { Some(b) : b \in DecodedBitmaps } :
                   /\ native' = n
                   /\ refcount' = IF n # None THEN 1 ELSE 0
            ELSE UNCHANGED << native, refcount >>
    /\ UNCHANGED << envVars, loader, wrapper, unrefs, handled, sliceVars,
                    used_after_free, format_name, invoked, surface >>

\* format_ = gdk_pixbuf_loader_get_format(loader); its name, or None
GetFormat ==
    /\ pc = "get_format"
    /\ calls' = Append(calls, Call("get_format", << >>))
    /\ format_name' \in {None, Some("png")}
    /\ pc' = "get_pixbuf"
    /\ UNCHANGED << envVars, objVars, errVars, sliceVars, used_after_free,
                    invoked, surface, exc >>

\* A plausible slip: the NULL check left out.
GetPixbufUnchecked ==
    /\ pc = "get_pixbuf"
    /\ calls' = Append(calls, Call("get_pixbuf", << IF native = None THEN 0 ELSE 1 >>))
    /\ pc' = "pixbuf_init" /\ exc' = exc
    /\ UNCHANGED << envVars, objVars, errVars, sliceVars, used_after_free,
                    format_name, invoked, surface >>

\* pixbuf = gdk_pixbuf_loader_get_pixbuf(loader); NULL raises
GetPixbuf ==
    /\ pc = "get_pixbuf"
    /\ calls' = Append(calls, Call("get_pixbuf", << IF native = None THEN 0 ELSE 1 >>))
    /\ IF native = None
       THEN Raise("ImageLoadingError", NotEnoughImageData)
       ELSE pc' = "pixbuf_init" /\ exc' = exc
    /\ UNCHANGED << envVars, objVars, errVars, sliceVars, used_after_free,
                    format_name, invoked, surface >>

\* A plausible slip: the wrapper takes no reference of its own.
PixbufInitNoRef ==
    /\ pc = "pixbuf_init"
    /\ refcount' = refcount
    /\ wrapper' = "alive"
    /\ pc' = "dispatch"
    /\ UNCHANGED << envVars, loader, native, unrefs, errVars, sliceVars,
                    used_after_free, format_name, calls, invoked, surface, exc >>

\* return Pixbuf(pixbuf), format_name; Pixbuf.__init__: g_object_ref(pointer),
\* then self._pointer = ffi.gc(pointer, g_object_unref)
PixbufInit ==
    /\ pc = "pixbuf_init"
    /\ refcount' = refcount + 1
    /\ wrapper' = "alive"
    /\ pc' = "dispatch"
    /\ UNCHANGED << envVars, loader, native, unrefs, errVars, sliceVars,
                    used_after_free, format_name, calls, invoked, surface, exc >>

\* ------------------------------------------------ decode_to_image_surface
\* A plausible slip: the alpha test placed before the availability test.
SelectStrategyAlphaFirst(g, has_alpha) ==
    IF ~has_alpha THEN "slices"
    ELSE IF g # None THEN "gdk"
    ELSE "png"

\* pixbuf_to_cairo_gdk(pixbuf) if gdk is not None
\* else pixbuf_to_cairo_slices(pixbuf) if not pixbuf.get_has_alpha()
\* else pixbuf_to_cairo_png(pixbuf)
SelectStrategy(g, has_alpha) ==
    IF g # None THEN "gdk"
    ELSE IF ~has_alpha THEN "slices"
    ELSE "png"

\* The conditional expression picks the strategy and calls it;
\* get_has_alpha() is evaluated only when gdk is None.
Dispatch ==
    /\ pc = "dispatch"
    /\ LET s == SelectStrategy(gdk, Get(native).has_alpha)
       IN  /\ invoked' = Append(invoked, s)
           /\ pc' = s
    /\ used_after_free' = (used_after_free \/ (gdk = None /\ refcount <= 0))
    /\ UNCHANGED << envVars, objVars, errVars, sliceVars, format_name, calls,
                    surface, exc >>

\* A surface whose pixels an external library filled in: the pixel content is
\* not part of this model.
ExternalSurface(format, b) ==
    [format |-> format, width |-> b.width, height |-> b.height,
     stride |-> 4 * b.width, data |-> << >>]

\* pixbuf_to_cairo_gdk: gdk_cairo_set_source_pixbuf on a dummy context, then
\* the source pattern's surface.
ConvertGdk ==
    /\ pc = "gdk"
    /\ UsePixbuf
    /\ surface' = Some(ExternalSurface(
                     IF Get(native).has_alpha THEN "ARGB32" ELSE "RGB24", Get(native)))
    /\ pc' = "return"
    /\ UNCHANGED << envVars, objVars, errVars, sliceVars, format_name, calls,
                    invoked, exc >>

\* The three assertions of pixbuf_to_cairo_slices.
SlicesPreconditions(b) ==
    /\ b.colorspace = "GDK_COLORSPACE_RGB"
    /\ b.n_channels = 3
    /\ b.bits_per_sample = 8

\* The rows ImageSurface.format_stride_for_width(FORMAT_RGB24, width) may
\* answer: at least width * 4 bytes, a multiple of 4.
CairoStrides(w) == { 4 * w + 4 * k : k \in 0..MaxStridePad }

\* A plausible slip: a failed assertion falls back to the PNG round trip.
SlicesBeginRetry ==
    /\ pc = "slices"
    /\ UsePixbuf
    /\ LET b == Get(native)
       IN  IF ~SlicesPreconditions(b)
           THEN /\ pc' = "png" /\ exc' = exc
                /\ invoked' = Append(invoked, "png")
                /\ UNCHANGED sliceVars
           ELSE /\ width' = b.width /\ height' = b.height
                /\ rowstride' = b.rowstride /\ pixels' = b.pixels
                /\ cairo_stride' \in CairoStrides(b.width)
                /\ data' = ByteArray(cairo_stride' * b.height)
                /\ y' = 0 /\ written' = {}
                /\ pc' = "slices_loop" /\ exc' = exc
                /\ invoked' = invoked
    /\ UNCHANGED << envVars, objVars, errVars, format_name, calls, surface >>

\* pixbuf_to_cairo_slices up to the loop: the assertions, the metadata and a
\* copy of the pixel bytes read through the wrapper, the zeroed destination.
SlicesBegin ==
    /\ pc = "slices"
    /\ UsePixbuf
    /\ LET b == Get(native)
       IN  IF ~SlicesPreconditions(b)
           THEN /\ Raise("AssertionError", << >>)
                /\ UNCHANGED sliceVars
           ELSE /\ width' = b.width /\ height' = b.height
                /\ rowstride' = b.rowstride /\ pixels' = b.pixels
                /\ cairo_stride' \in CairoStrides(b.width)
                /\ data' = ByteArray(cairo_stride' * b.height)
                /\ y' = 0 /\ written' = {}
                /\ pc' = "slices_loop" /\ exc' = exc
    /\ UNCHANGED << envVars, objVars, errVars, format_name,
                    calls, invoked, surface >>

\* One iteration of `for y in range(height)`: three strided reads of the
\* source row, four strided assignments into the destination row.
SlicesRow ==
    /\ pc = "slices_loop"
    /\ y < height
    /\ LET r == ApplyRow(data, RowAssignments(pixels, y, width, rowstride,
                                               cairo_stride, big_endian))
       IN  /\ data' = r.data
           /\ written' = r.written
           /\ IF r.ok
              THEN y' = y + 1 /\ pc' = pc /\ exc' = exc
              ELSE y' = y /\ Raise("ValueError", << >>)
    /\ UNCHANGED << envVars, objVars, errVars, width, height, rowstride, pixels,
                    cairo_stride, used_after_free, format_name, calls, invoked,
                    surface >>

\* return ImageSurface(FORMAT_RGB24, width, height, array('B', data), cairo_stride)
SlicesEnd ==
    /\ pc = "slices_loop"
    /\ y >= height
    /\ surface' = Some([format |-> "RGB24", width |-> width, height |-> height,
                        stride |-> cairo_stride, data |-> data])
    /\ pc' = "return"
    /\ UNCHANGED << envVars, objVars, errVars, sliceVars, used_after_free,
                    format_name, calls, invoked, exc >>

\* pixbuf_to_cairo_png: handle_g_error(error, pixbuf.save_to_buffer(...)), then
\* ImageSurface.create_from_png on the bytes.
ConvertPng ==
    /\ pc = "png"
    /\ UsePixbuf
    /\ \E r \in LibResults :
         /\ Handled(r, "return")
         /\ surface' = IF r.return_value # 0
                       THEN Some(ExternalSurface("ARGB32", Get(native)))
                       ELSE surface
    /\ UNCHANGED << envVars, objVars, handled, sliceVars, format_name, calls,
                    invoked >>

\* return surface, format_name
Return ==
    /\ pc = "return"
    /\ pc' = "done"
    /\ UNCHANGED << envVars, objVars, errVars, sliceVars, used_after_free,
                    format_name, calls, invoked, surface, exc >>

\* ------------------------------------------------------ garbage collection
\* The statements of decode_to_pixbuf after `loader` is bound: its frame holds
\* the loader cdata.
LoaderReachable == pc \in {"set_size", "write", "close", "get_format",
                           "get_pixbuf", "pixbuf_init"}

\* The statements of decode_to_image_surface after `pixbuf` is bound.
WrapperReachable == pc \in {"dispatch", "gdk", "slices", "slices_loop", "png",
                            "return"}

\* The loader cdata is collected once unreachable: g_object_unref(loader)
\* finalizes the loader, which drops its reference on the pixbuf it built.
GcLoader ==
    /\ loader = "alive"
    /\ ~LoaderReachable
    /\ loader' = "released"
    /\ refcount' = IF native # None THEN refcount - 1 ELSE refcount
    /\ UNCHANGED << envVars, native, wrapper, unrefs, errVars, sliceVars, pc,
                    used_after_free, format_name, calls, invoked, surface, exc >>

\* A plausible slip: the pointer is released both by the ffi.gc destructor
\* and by an explicit unref.
GcWrapperTwice ==
    /\ wrapper = "alive"
    /\ ~WrapperReachable
    /\ wrapper' = "collected"
    /\ refcount' = refcount - 2
    /\ unrefs' = unrefs + 2
    /\ UNCHANGED << envVars, loader, native, errVars, sliceVars, pc,
                    used_after_free, format_name, calls, invoked, surface, exc >>

\* The Pixbuf object is collected once unreachable: the ffi.gc destructor of
\* its _pointer calls g_object_unref.
GcWrapper ==
    /\ wrapper = "alive"
    /\ ~WrapperReachable
    /\ wrapper' = "collected"
    /\ refcount' = refcount - 1
    /\ unrefs' = unrefs + 1
    /\ UNCHANGED << envVars, loader, native, errVars, sliceVars, pc,
                    used_after_free, format_name, calls, invoked, surface, exc >>

\* ---------------------------------------------------------- specifications
Next ==
    \/ LoaderNew \/ SetSize \/ Write \/ Close \/ GetFormat \/ GetPixbuf
    \/ PixbufInit \/ Dispatch \/ ConvertGdk \/ SlicesBegin \/ SlicesRow
    \/ SlicesEnd \/ ConvertPng \/ Return \/ GcLoader \/ GcWrapper

Spec == Init /\ [][Next]_vars

\* pixbuf_to_cairo_slices entered from decode_to_image_surface: no gdk, an
\* opaque bitmap decoded without size hints, the loader already collected.
InitSlices ==
    /\ gdk = None
    /\ big_endian \in BOOLEAN
    /\ arg_width = None /\ arg_height = None
    /\ pc = "slices"
    /\ loader = "released"
    /\ native \in { Some(b) : b \in OpaqueBitmaps }
    /\ refcount = 1
    /\ wrapper = "alive" /\ unrefs = 0 /\ used_after_free = FALSE
    /\ format_name = Some("png")
    /\ calls = << Call("loader_new", << >>), Call("write", << 1 >>),
                  Call("close", << 1 >>), Call("get_format", << >>),
                  Call("get_pixbuf", << 1 >>) >>
    /\ invoked = << "slices" >>
    /\ surface = None /\ exc = None
    /\ return_value = 1 /\ error = None /\ frees = 0 /\ handled = None
    /\ SliceInit

NextSlices == SlicesBegin \/ SlicesRow \/ SlicesEnd

SpecSlices == InitSlices /\ [][NextSlices]_vars

\* handle_g_error called on any combination of return value and GError.
InitErr ==
    /\ gdk = None /\ big_endian = FALSE
    /\ arg_width = None /\ arg_height = None
    /\ pc = "handle_g_error"
    /\ loader = "alive" /\ native = None /\ refcount = 0
    /\ wrapper = "none" /\ unrefs = 0 /\ used_after_free = FALSE
    /\ format_name = None /\ calls = << >> /\ invoked = << >>
    /\ surface = None /\ exc = None
    /\ return_value \in {0, 1}
    /\ error \in {None} \cup { Some(e) : e \in GErrors(MaxMsgLen) }
    /\ frees = 0 /\ handled = None
    /\ SliceInit

HandleGErrorCall ==
    /\ pc = "handle_g_error"
    /\ LET h == handle_g_error(error, return_value)
       IN  /\ handled' = Some(h)
           /\ frees' = frees + h.frees
           /\ IF h.outcome = "return"
              THEN pc' = "returned" /\ exc' = exc
              ELSE Raise(h.outcome, h.message)
    /\ UNCHANGED << envVars, objVars, return_value, error, sliceVars,
                    used_after_free, format_name, calls, invoked, surface >>

NextErr == HandleGErrorCall

SpecErr == InitErr /\ [][NextErr]_vars

\* ------------------------------------------------------------------ claims
CallsOf(op) == { i \in 1..Len(calls) : calls[i].op = op }
Reported(op, v) == \E i \in CallsOf(op) : calls[i].args = << v >>

\* C1: the strategy invoked is the one the priority table gives for
\* (gdk available, has_alpha): gdk whenever gdk is available, otherwise
\* slices for an opaque bitmap, otherwise png; nothing else (hints, size,
\* sample depth, byte order, format name) has a say.
C1_StrategyByPriorityTable ==
    invoked # << >> =>
        \A avail \in BOOLEAN, alpha \in BOOLEAN :
            ((gdk # None) = avail /\ Get(native).has_alpha = alpha) =>
                invoked[1] = CASE avail -> "gdk"
                               [] ~avail /\ ~alpha -> "slices"
                               [] ~avail /\ alpha -> "png"

C1_Witness ==
    /\ pc = "done" /\ gdk = None /\ Get(native).has_alpha
    /\ invoked = << "png" >>

\* The destination bytes at 0-based offset o, as a native-endian 32-bit
\* word, split into its most significant byte and its low 24 bits (the whole
\* word does not fit the model checker's integers).
WordHigh(buf, o) == IF big_endian THEN buf[o + 1] ELSE buf[o + 4]
WordLow(buf, o) ==
    IF big_endian
    THEN buf[o + 2] * 65536 + buf[o + 3] * 256 + buf[o + 4]
    ELSE buf[o + 3] * 65536 + buf[o + 2] * 256 + buf[o + 1]

SlicesReturned == pc \in {"return", "done"} /\ invoked = << "slices" >>

\* C2: when pixbuf_to_cairo_slices returns, every pixel (x, y) of the
\* surface, read as a native-endian word at stride*y + 4*x, is
\* 0xFF000000 + R*65536 + G*256 + B for the source bytes R, G, B at
\* rowstride*y + 3*x + 0/1/2.
C2_SlicesPixelExact ==
    SlicesReturned =>
        LET s == Get(surface)
            b == Get(native)
        IN  /\ s.width = b.width /\ s.height = b.height
            /\ \A px \in 0..(b.width - 1), py \in 0..(b.height - 1) :
                 LET o == s.stride * py + 4 * px
                     p == b.rowstride * py + 3 * px
                 IN  /\ WordHigh(s.data, o) = 255
                     /\ WordLow(s.data, o) = b.pixels[p + 1] * 65536
                                             + b.pixels[p + 2] * 256
                                             + b.pixels[p + 3]

C2_Witness ==
    /\ SlicesReturned
    /\ Get(native).width >= 2 /\ Get(native).height >= 2
    /\ Get(native).rowstride > 3 * Get(native).width
    /\ ~big_endian

\* The whole row loop on bitmap b, into a zeroed buffer of the given stride.
RECURSIVE SlicesRows(_, _, _, _)
SlicesRows(b, stride, buf, row) ==
    IF row >= b.height THEN buf
    ELSE SlicesRows(b, stride,
                    ApplyRow(buf, RowAssignments(b.pixels, row, b.width, b.rowstride,
                                                 stride, big_endian)).data,
                    row + 1)

\* The samples of b, without its row padding.
Logical(b) ==
    [i \in 1..(3 * b.width * b.height) |->
        b.pixels[b.rowstride * ((i - 1) \div (3 * b.width)) + ((i - 1) % (3 * b.width)) + 1]]

\* The bytes of b that are row padding.
PaddingBytes(b) ==
    { b.pixels[i] : i \in { j \in 1..Len(b.pixels) : (j - 1) % b.rowstride >= 3 * b.width } }

\* C3: the buffer pixbuf_to_cairo_slices returns is the one it builds from
\* any other bitmap of the same size and samples, whatever that bitmap's row
\* stride, padding bytes and byte length; and no padding byte of the source
\* appears in it.
C3_PaddingIndependent ==
    SlicesReturned =>
        LET s == Get(surface)
            b == Get(native)
        IN  /\ \A b2 \in OpaqueBitmaps :
                 (b2.width = b.width /\ b2.height = b.height /\ Logical(b2) = Logical(b))
                    => SlicesRows(b2, s.stride, ByteArray(s.stride * b2.height), 0) = s.data
            /\ \A i \in 1..Len(s.data) : s.data[i] \notin PaddingBytes(b)

C3_Witness ==
    /\ SlicesReturned
    /\ Get(native).rowstride > 3 * Get(native).width
    /\ Get(native).height >= 2
    /\ \E b2 \in OpaqueBitmaps :
         /\ b2.width = Get(native).width /\ b2.height = Get(native).height
         /\ Logical(b2) = Logical(Get(native))
         /\ b2.rowstride # Get(native).rowstride

\* Some step of decode_to_pixbuf reported failure.
DecodeFailed ==
    \/ Reported("write", 0) \/ Reported("close", 0) \/ Reported("get_pixbuf", 0)

\* C4: a Pixbuf exists only if write and close reported success and the
\* pixbuf retrieved was not NULL; if write fails, close fails or the pixbuf
\* is NULL, the call raises ImageLoadingError, no Pixbuf exists, no strategy
\* is invoked and no surface is built.
C4_DecodeAllOrNothing ==
    /\ wrapper # "none" =>
          /\ Reported("write", 1) /\ Reported("close", 1)
          /\ Reported("get_pixbuf", 1) /\ native # None
    /\ DecodeFailed =>
          /\ pc = "raised"
          /\ exc # None /\ Get(exc).type = "ImageLoadingError"
          /\ wrapper = "none"
          /\ invoked = << >>
          /\ surface = None

C4_Witness ==
    /\ pc = "raised" /\ Reported("close", 1) /\ Reported("get_pixbuf", 0)
    /\ Get(exc).message = NotEnoughImageData

\* C5: with both hints given, whatever their values (0 included), set_size
\* is called exactly once with that pair, after the loader is created and
\* before the bytes are written.
C5_SizeHintForwarded ==
    (pc \notin {"loader_new", "set_size"} /\ arg_width # None /\ arg_height # None) =>
        /\ Cardinality(CallsOf("set_size")) = 1
        /\ \A i \in CallsOf("set_size") :
             /\ calls[i].args = << Get(arg_width), Get(arg_height) >>
             /\ \A j \in CallsOf("loader_new") : j < i
             /\ \A j \in CallsOf("write") : i < j

C7_ErrorTranslator ==
    handled # None =>
        LET ok == return_value # 0
            present == error # None
        IN  /\ (ok /\ ~present) =>
                 /\ pc = "returned" /\ exc = None /\ frees = 0
            /\ (~ok /\ present) =>
                 /\ pc = "raised" /\ frees = 1
                 /\ Get(exc).type = "ImageLoadingError"
                 /\ Get(exc).message =
                      IF Get(error).message = None THEN PixbufError
                      ELSE PixbufErrorPrefix \o Utf8Decode(Get(Get(error).message))
                 /\ (/\ Get(error).message # None
                     /\ \A i \in 1..Len(Get(Get(error).message)) :
                          Get(Get(error).message)[i] < 128)
                    => Get(exc).message = PixbufErrorPrefix \o Get(Get(error).message)
            /\ (ok = present) =>
                 /\ pc = "raised"
                 /\ Get(exc).type = "AssertionError"

C7_Witness ==
    /\ handled # None /\ return_value = 0 /\ error # None
    /\ Get(error).message = Some(<< 65, 195, 169 >>)
    /\ Get(exc).message = PixbufErrorPrefix \o << 65, 233 >>
    /\ frees = 1

\* C8: one call invokes one strategy, once; when the strategy fails the
\* exception reaches the caller, no surface is returned and no other
\* strategy is tried.
C8_OneStrategyNoRetry ==
    /\ Len(invoked) <= 1
    /\ pc \in {"gdk", "slices", "slices_loop", "png", "return", "done"} =>
          Len(invoked) = 1
    /\ pc \in {"gdk", "slices", "png"} => invoked = << pc >>
    /\ pc = "slices_loop" => invoked = << "slices" >>
    /\ (pc = "raised" /\ invoked # << >>) => (exc # None /\ surface = None)
    /\ pc = "done" => (exc = None /\ surface # None)

C8_Witness ==
    /\ pc = "raised" /\ invoked = << "slices" >>
    /\ Get(exc).type = "AssertionError"

\* The destination row the last iteration wrote: 0-based offsets.
RowRange(row) == { i \in 0..(Len(data) - 1) :
                     i >= cairo_stride * row /\ i < cairo_stride * row + 4 * width }

\* C9: from the allocation of the destination to the return, the buffer is
\* exactly stride * height bytes; the iteration for row y assigns only
\* offsets in [stride*y, stride*y + 4*width); every byte in
\* [stride*y + 4*width, stride*(y+1)) is zero, in the returned buffer too.
C9_DestinationBounds ==
    (pc \in {"slices_loop", "return", "done"} /\ invoked = << "slices" >>) =>
        /\ cairo_stride >= 4 * width
        /\ Len(data) = cairo_stride * height
        /\ y <= height
        /\ written = IF y = 0 THEN {} ELSE RowRange(y - 1)
        /\ \A i \in 0..(Len(data) - 1) :
             (i % cairo_stride) >= 4 * width => data[i + 1] = 0
        /\ surface # None =>
             /\ Len(Get(surface).data) = Get(surface).stride * Get(surface).height
             /\ \A i \in 0..(Len(data) - 1) :
                  (i % cairo_stride) >= 4 * width => Get(surface).data[i + 1] = 0

C9_Witness ==
    /\ pc = "return" /\ invoked = << "slices" >>
    /\ cairo_stride > 4 * width /\ height >= 2 /\ width >= 2

\* C10: the GdkPixbuf's reference count is the loader's reference (while the
\* loader lives) plus the Pixbuf's (while the Pixbuf lives): at least 1 under
\* a live Pixbuf, never negative; the Pixbuf's reference is taken while the
\* loader is still alive and dropped exactly once, at collection; no GdkPixbuf
\* call is made on a freed bitmap.
C10_ReferenceCount ==
    /\ native # None =>
          refcount = (IF loader = "alive" THEN 1 ELSE 0)
                     + (IF wrapper = "alive" THEN 1 ELSE 0)
    /\ wrapper = "alive" => refcount >= 1
    /\ refcount >= 0
    /\ ~used_after_free
    /\ unrefs = (IF wrapper = "collected" THEN 1 ELSE 0)
    /\ pc = "pixbuf_init" => loader = "alive"

C10_Witness ==
    /\ pc = "done" /\ wrapper = "collected" /\ loader = "released"
    /\ refcount = 0 /\ surface # None

=============================================================================
